---- MODULE Spec2Model ----
(***************************************************************************)
(* Model of tools/installer/bin/bmad.js: the command-line front end of the *)
(* BMAD Method installer.  One behaviour of the model is one process run:  *)
(* module resolution at load time, commander's dispatch of one subcommand, *)
(* the async command handler with its prompts and collaborator calls, and  *)
(* the end of the process.                                                 *)
(*                                                                         *)
(* JavaScript values: an optional value (a property that may be undefined) *)
(* is a sequence of length 0 (undefined) or 1 (the value).  The libraries  *)
(* (commander, inquirer, chalk) and the collaborator (lib/installer) are   *)
(* the environment: commander delivers parsed options, inquirer delivers   *)
(* answers and re-asks while validate does not return true, a collaborator *)
(* call returns or throws.  The dynamic imports of chalk and inquirer are  *)
(* taken to succeed.                                                       *)
(***************************************************************************)
EXTENDS Integers, Sequences, FiniteSets, TLC

\* ---------------------------------------------------------------- bounds
\* Most agents the collaborator's getAvailableAgents() returns.
MaxAgents == 2
\* Most empty submissions of the IDE checkbox the model follows.
MaxRejects == 2

\* ------------------------------------------------------- JavaScript values
None == <<>>
Some(x) == <<x>>

\* Truthiness of an optional string: undefined and "" are falsy.
TruthyStr(m) == m # None /\ m[1] # ""

\* Truthiness of an optional array: every array, even [], is truthy.
TruthyArr(m) == m # None

\* a || b for an optional string a and a string b.
OrStr(m, b) == IF TruthyStr(m) THEN m[1] ELSE b

\* a || b for an optional array a and an array b.
OrArr(m, b) == IF TruthyArr(m) THEN m[1] ELSE b

\* ------------------------------------------------------------ input domains
\* Values of -a/--agent the model passes on the command line.
AgentArgs == {"", "dev"}

\* Values of -d/--directory the model passes on the command line.
DirArgs == {"", "/tmp/x"}

\* Values of -i/--ide <ide...> the model passes on the command line: a variadic
\* option that is given has at least one value, kept in the order given.
IdeArgLists == {<<"cursor">>, <<"cursor", "windsurf">>, <<"windsurf", "cursor">>}

Opt(S) == {None} \cup {Some(x) : x \in S}

\* What the user types at the directory prompt ("" accepts the default).
DirInputs == {"", "/opt/bmad"}

\* The descriptors the collaborator can return, in its order.
AgentPool ==
  << [id |-> "dev", name |-> "Developer", description |-> "writes code"],
     [id |-> "pm", name |-> "Product Manager", description |-> "writes PRDs"],
     [id |-> "qa", name |-> "QA", description |-> "tests"],
     [id |-> "sm", name |-> "Scrum Master", description |-> "plans"] >>

Min(a, b) == IF a < b THEN a ELSE b

AgentLists == {SubSeq(AgentPool, 1, n) : n \in 0..Min(MaxAgents, Len(AgentPool))}

Commands == {"none", "version", "install", "update", "list", "status"}


\* The four choices of the IDE checkbox, in the order shown.
IdeChoices == <<"cursor", "claude-code", "windsurf", "roo">>

\* The sets of boxes (by position) the user checks before submitting.
IdeSelections == {{}, {1}, {2, 4}, {1, 2, 3, 4}}

\* ------------------------------------------------------------------ state
VARIABLES
  version,    \* module-level `version`: None, or Some(context it came from)
  installer,  \* module-level `installer`: None, or Some(context it came from)
  chalk,      \* TRUE when the module-level `chalk` holds the loaded module
  inquirer,   \* TRUE when the module-level `inquirer` holds the loaded module
  pc,         \* position of the process
  cmd,        \* subcommand commander dispatched
  options,    \* options object commander built for the subcommand
  answers,    \* `answers` object of promptInstallation
  agents,     \* `agents` of promptInstallation
  rejects,    \* empty submissions of the IDE checkbox so far
  config,     \* None, or Some(object about to be passed to installer.install)
  exitCode,   \* NotExited while the process runs, then its exit status
  log         \* everything observable, in order

vars == <<version, installer, chalk, inquirer, pc, cmd, options, answers,
          agents, rejects, config, exitCode, log>>

NotExited == 0 - 1

Event(k, n, a) == [kind |-> k, name |-> n, args |-> a]

NoOptions ==
  [full |-> FALSE, agent |-> None, directory |-> None, ide |-> None,
   force |-> FALSE, dryRun |-> FALSE]

EmptyObject ==
  [installType |-> None, agent |-> None, directory |-> None, ides |-> None]

Init ==
  /\ version = None
  /\ installer = None
  /\ chalk = FALSE
  /\ inquirer = FALSE
  /\ pc = "require_local_pkg"
  /\ cmd = "none"
  /\ options = NoOptions
  /\ answers = EmptyObject
  /\ agents = <<>>
  /\ rejects = 0
  /\ config = None
  /\ exitCode = NotExited
  /\ log = <<>>

\* -------------------------------------------------- lazy helper loading
\* Mutant: initializeModules without its `if (!chalk)` guard.
InitializeModulesUnguarded(c, i) ==
  [chalk |-> TRUE, inquirer |-> TRUE,
   events |-> << [kind |-> "init", name |-> "initializeModules", args |-> <<>>],
                 [kind |-> "load", name |-> "chalk", args |-> <<>>],
                 [kind |-> "load", name |-> "inquirer", args |-> <<>>] >>]

\* initializeModules(): the state of (chalk, inquirer) after the call and
\* the events of the call.
InitializeModules(c, i) ==
  IF ~c
  THEN [chalk |-> TRUE, inquirer |-> TRUE,
        events |-> << Event("init", "initializeModules", <<>>),
                      Event("load", "chalk", <<>>),
                      Event("load", "inquirer", <<>>) >>]
  ELSE [chalk |-> c, inquirer |-> i,
        events |-> << Event("init", "initializeModules", <<>>) >>]

\* `if (!chalk) await initializeModules();` of the catch blocks.
CatchInit(c, i) ==
  IF ~c THEN InitializeModules(c, i)
  ELSE [chalk |-> c, inquirer |-> i, events |-> <<>>]

\* A use of a helper records whether the helper was loaded at that point.
Use(name, loaded) == Event("use", name, <<loaded>>)

\* ------------------------------------------------------ module resolution
Unchanged_handler == UNCHANGED <<cmd, options, answers, agents, rejects, config>>

\* version = require('../package.json').version
RequireLocalPkg ==
  /\ pc = "require_local_pkg"
  /\ \E resolves \in BOOLEAN :
     IF resolves
     THEN /\ version' = Some("local")
          /\ pc' = "require_local_installer"
          /\ log' = Append(log, Event("require", "local:package.json", <<>>))
     ELSE /\ version' = version
          /\ pc' = "require_root_pkg"
          /\ log' = log \o << Event("require", "local:package.json", <<>>),
                              Event("stdout", "Installer context not found", <<>>) >>
  /\ UNCHANGED <<installer, chalk, inquirer, exitCode>>
  /\ Unchanged_handler

\* installer = require('../lib/installer')
RequireLocalInstaller ==
  /\ pc = "require_local_installer"
  /\ \E resolves \in BOOLEAN :
     IF resolves
     THEN /\ installer' = Some("local")
          /\ pc' = "parse"
          /\ log' = Append(log, Event("require", "local:lib/installer", <<>>))
     ELSE /\ installer' = installer
          /\ pc' = "require_root_pkg"
          /\ log' = log \o << Event("require", "local:lib/installer", <<>>),
                              Event("stdout", "Installer context not found", <<>>) >>
  /\ UNCHANGED <<version, chalk, inquirer, exitCode>>
  /\ Unchanged_handler

\* Mutant: the fallback keeps a version the local context already set.
RootVersionKeepsOld(old) == IF old # None THEN old ELSE Some("root")

\* The version the root-context require of package.json leaves in `version`.
RootVersion(old) == Some("root")

\* version = require('../../../package.json').version
RequireRootPkg ==
  /\ pc = "require_root_pkg"
  /\ \E resolves \in BOOLEAN :
     IF resolves
     THEN /\ version' = RootVersion(version)
          /\ pc' = "require_root_installer"
     ELSE /\ version' = version
          /\ pc' = "resolve_failed"
  /\ log' = Append(log, Event("require", "root:package.json", <<>>))
  /\ UNCHANGED <<installer, chalk, inquirer, exitCode>>
  /\ Unchanged_handler

\* installer = require('../../../tools/installer/lib/installer')
RequireRootInstaller ==
  /\ pc = "require_root_installer"
  /\ \E resolves \in BOOLEAN :
     IF resolves
     THEN /\ installer' = Some("root")
          /\ pc' = "parse"
     ELSE /\ installer' = installer
          /\ pc' = "resolve_failed"
  /\ log' = Append(log, Event("require", "root:lib/installer", <<>>))
  /\ UNCHANGED <<version, chalk, inquirer, exitCode>>
  /\ Unchanged_handler

\* catch (e2): two console.error calls, then process.exit(1)
ResolveFailed ==
  /\ pc = "resolve_failed"
  /\ log' = log \o << Event("stderr", "Error: Could not load required modules.", <<>>),
                      Event("stderr", "Debug info:", <<>>) >>
  /\ exitCode' = 1
  /\ pc' = "exited"
  /\ UNCHANGED <<version, installer, chalk, inquirer>>
  /\ Unchanged_handler

\* ------------------------------------------------------- command dispatch
\* The options objects commander can build for a subcommand.
OptionsOf(c) ==
  IF c = "install"
  THEN {[NoOptions EXCEPT !.full = f, !.agent = a, !.directory = d, !.ide = i] :
          f \in BOOLEAN, a \in Opt(AgentArgs), d \in Opt(DirArgs), i \in Opt(IdeArgLists)}
  ELSE IF c = "update"
  THEN {[NoOptions EXCEPT !.force = f, !.dryRun = d] : f \in BOOLEAN, d \in BOOLEAN}
  ELSE {NoOptions}

\* Mutant: the length of process.argv itself is tested, which is never 0.
ArgvIsEmptyUnsliced(c) == FALSE

\* process.argv.slice(2).length is 0 exactly when nothing follows the script name.
ArgvIsEmpty(c) == c = "none"

\* if (!process.argv.slice(2).length) program.outputHelp();
HelpEvents(c) ==
  IF ArgvIsEmpty(c) THEN << Event("stdout", "help", <<>>) >> ELSE <<>>

HandlerEntry(c) ==
  CASE c = "install" -> "install_enter"
    [] c = "update"  -> "update_call"
    [] c = "list"    -> "list_call"
    [] c = "status"  -> "status_call"
    [] OTHER         -> "returned"

\* program.version(version) ... program.parse(process.argv), and the help check
\* that follows it.  --version is answered by commander itself, which prints
\* the version and exits 0.
Parse ==
  /\ pc = "parse"
  /\ \E c \in Commands :
       /\ cmd' = c
       /\ \E o \in OptionsOf(c) : options' = o
       /\ IF c = "version"
          THEN /\ log' = log \o << Event("parse", c, <<>>),
                                   Event("stdout", "version", version) >>
               /\ exitCode' = 0
               /\ pc' = "exited"
          ELSE /\ log' = log \o << Event("parse", c, <<>>) >> \o HelpEvents(c)
               /\ exitCode' = exitCode
               /\ pc' = HandlerEntry(c)
  /\ UNCHANGED <<version, installer, chalk, inquirer, answers, agents,
                 rejects, config>>

\* The handler has returned (or none ran) and nothing is pending: node exits 0.
ProcessEnd ==
  /\ pc = "returned"
  /\ exitCode' = 0
  /\ pc' = "exited"
  /\ UNCHANGED <<version, installer, chalk, inquirer, cmd, options,
                 answers, agents, rejects, config, log>>

\* ------------------------------------------------------------ collaborator
\* A call of a collaborator operation: the event of the call, then either a
\* return or a throw.
CallEvent(op, args) == Event("call", op, args)
ThrowEvent(op) == Event("throw", op, <<>>)

\* --------------------------------------------------------------- install
\* try { await initializeModules();
InstallEnter ==
  /\ pc = "install_enter"
  /\ LET m == InitializeModules(chalk, inquirer)
     IN /\ chalk' = m.chalk
        /\ inquirer' = m.inquirer
        /\ log' = log \o m.events
  /\ pc' = "install_branch"
  /\ UNCHANGED <<version, installer, cmd, options, answers, agents,
                 rejects, config, exitCode>>

\* Mutant: the branch looks at --full alone.
InteractiveIgnoresAgent(o) == ~o.full

\* !options.full && !options.agent
Interactive(o) == ~o.full /\ ~TruthyStr(o.agent)

\* Mutant: the install type is decided by --agent instead of --full.
DirectInstallTypeByAgent(o) == IF TruthyStr(o.agent) THEN "single-agent" ELSE "full"

\* installType: options.full ? 'full' : 'single-agent'
DirectInstallType(o) == IF o.full THEN "full" ELSE "single-agent"

\* directory: options.directory || '.bmad-core'
DirectDirectory(o) == OrStr(o.directory, ".bmad-core")

\* ides: options.ide || []
DirectIdes(o) == OrArr(o.ide, <<>>)

\* const config = { installType, agent, directory, ides }
DirectConfig(o) ==
  [installType |-> Some(DirectInstallType(o)),
   agent       |-> o.agent,
   directory   |-> Some(DirectDirectory(o)),
   ides        |-> Some(DirectIdes(o))]

\* if (!options.full && !options.agent) { promptInstallation() ... } else { config ... }
InstallBranch ==
  /\ pc = "install_branch"
  /\ IF Interactive(options)
     THEN /\ pc' = "prompt_enter"
          /\ config' = config
     ELSE /\ pc' = "install_call"
          /\ config' = Some(DirectConfig(options))
  /\ UNCHANGED <<version, installer, chalk, inquirer, cmd, options,
                 answers, agents, rejects, exitCode, log>>

\* await installer.install(answers) / await installer.install(config)
InstallCall ==
  /\ pc = "install_call"
  /\ \E ok \in BOOLEAN :
       IF ok
       THEN /\ log' = Append(log, CallEvent("install", <<config[1]>>))
            /\ pc' = "returned"
       ELSE /\ log' = log \o << CallEvent("install", <<config[1]>>),
                                ThrowEvent("install") >>
            /\ pc' = "install_catch"
  /\ UNCHANGED <<version, installer, chalk, inquirer, cmd, options,
                 answers, agents, rejects, config, exitCode>>

InstallPrefix == "Installation failed:"
\* Mutant: the update handler reports with the generic prefix.
UpdatePrefixGeneric == "Error:"
UpdatePrefix == "Update failed:"
ListPrefix == "Error:"
StatusPrefix == "Error:"

\* The status every catch block passes to process.exit.
CatchExitCode == 1

\* catch (error) { if (!chalk) await initializeModules();
\*                 console.error(chalk.red(prefix), error.message); process.exit(1); }
Catch(at, prefix) ==
  /\ pc = at
  /\ LET m == CatchInit(chalk, inquirer)
     IN /\ chalk' = m.chalk
        /\ inquirer' = m.inquirer
        /\ log' = log \o m.events
                      \o << Use("chalk.red", m.chalk), Event("stderr", prefix, <<>>) >>
  /\ exitCode' = CatchExitCode
  /\ pc' = "exited"
  /\ UNCHANGED <<version, installer, cmd, options, answers, agents,
                 rejects, config>>

InstallCatch == Catch("install_catch", InstallPrefix)

\* ------------------------------------------------- update, list, status
\* Mutant: the update handler forwards its options when a flag is set.
UpdateArgsForwarded(o) == IF o.force \/ o.dryRun THEN <<o>> ELSE <<>>

\* The arguments the update handler passes: installer.update()
UpdateArgs(o) == <<>>

\* A handler that makes one collaborator call inside try.
SimpleCall(at, op, args, catchAt) ==
  /\ pc = at
  /\ \E ok \in BOOLEAN :
       IF ok
       THEN /\ log' = Append(log, CallEvent(op, args))
            /\ pc' = "returned"
       ELSE /\ log' = log \o << CallEvent(op, args), ThrowEvent(op) >>
            /\ pc' = catchAt
  /\ UNCHANGED <<version, installer, chalk, inquirer, cmd, options,
                 answers, agents, rejects, config, exitCode>>

UpdateCall == SimpleCall("update_call", "update", UpdateArgs(options), "update_catch")
UpdateCatch == Catch("update_catch", UpdatePrefix)
ListCall == SimpleCall("list_call", "listAgents", <<>>, "list_catch")
ListCatch == Catch("list_catch", ListPrefix)
StatusCall == SimpleCall("status_call", "showStatus", <<>>, "status_catch")
StatusCatch == Catch("status_catch", StatusPrefix)

\* ----------------------------------------------------- promptInstallation
\* await initializeModules(); console.log(chalk.bold.blue(...)); const answers = {};
PromptEnter ==
  /\ pc = "prompt_enter"
  /\ LET m == InitializeModules(chalk, inquirer)
     IN /\ chalk' = m.chalk
        /\ inquirer' = m.inquirer
        /\ log' = log \o << Event("enter", "promptInstallation", <<>>) >>
                      \o m.events
                      \o << Use("chalk.bold", m.chalk),
                            Event("stdout", "Welcome to BMAD Method Installer", version) >>
  /\ answers' = EmptyObject
  /\ pc' = "ask_directory"
  /\ UNCHANGED <<version, installer, cmd, options, agents, rejects,
                 config, exitCode>>

PromptNames == {"directory", "installType", "agent", "ides"}
AskPc(n) == CASE n = "directory"   -> "ask_directory"
              [] n = "installType" -> "ask_installType"
              [] n = "agent"       -> "ask_agent"
              [] n = "ides"        -> "ask_ides"
WaitPc(n) == CASE n = "directory"   -> "wait_directory"
               [] n = "installType" -> "wait_installType"
               [] n = "agent"       -> "wait_agent"
               [] n = "ides"        -> "wait_ides"

\* await inquirer.prompt([{ name: n, ... }]): the question is put to the user.
PromptShow ==
  /\ \E n \in PromptNames :
       /\ pc = AskPc(n)
       /\ pc' = WaitPc(n)
       /\ log' = log \o << Use("inquirer.prompt", inquirer), Event("prompt", n, <<>>) >>
  /\ UNCHANGED <<version, installer, chalk, inquirer, cmd, options,
                 answers, agents, rejects, config, exitCode>>

\* An input prompt answers its default when the user submits nothing.
InputAnswer(input, default) == IF input = "" THEN default ELSE input

\* default: '.bmad-core'
DirectoryDefault == ".bmad-core"

\* const { directory } = await inquirer.prompt(...); answers.directory = directory;
AnswerDirectory ==
  /\ pc = "wait_directory"
  /\ \E input \in DirInputs :
       LET directory == InputAnswer(input, DirectoryDefault)
       IN /\ answers' = [answers EXCEPT !.directory = Some(directory)]
          /\ log' = Append(log, Event("answer", "directory", <<input, directory>>))
  /\ pc' = "ask_installType"
  /\ UNCHANGED <<version, installer, chalk, inquirer, cmd, options,
                 agents, rejects, config, exitCode>>

\* The values of the two choices of the install-type list.
InstallTypeChoices == <<"full", "single-agent">>

\* Mutant: the agent question is asked whatever the install type.
NeedsAgentAlways(installType) == TRUE

\* if (installType === 'single-agent')
NeedsAgent(installType) == installType = "single-agent"

\* const { installType } = await inquirer.prompt(...); answers.installType = installType;
AnswerInstallType ==
  /\ pc = "wait_installType"
  /\ \E k \in 1..Len(InstallTypeChoices) :
       LET installType == InstallTypeChoices[k]
       IN /\ answers' = [answers EXCEPT !.installType = Some(installType)]
          /\ log' = Append(log, Event("answer", "installType", <<installType>>))
          /\ pc' = IF NeedsAgent(installType) THEN "get_agents" ELSE "ask_ides"
  /\ UNCHANGED <<version, installer, chalk, inquirer, cmd, options,
                 agents, rejects, config, exitCode>>

\* const agents = await installer.getAvailableAgents();
GetAvailableAgents ==
  /\ pc = "get_agents"
  /\ \/ \E list \in AgentLists :
          /\ agents' = list
          /\ log' = Append(log, CallEvent("getAvailableAgents", <<>>))
          /\ pc' = "ask_agent"
     \/ /\ agents' = agents
        /\ log' = log \o << CallEvent("getAvailableAgents", <<>>),
                            ThrowEvent("getAvailableAgents") >>
        /\ pc' = "install_catch"
  /\ UNCHANGED <<version, installer, chalk, inquirer, cmd, options,
                 answers, rejects, config, exitCode>>

\* Mutant: the value of a choice is the agent's name instead of its id.
AgentChoicesByName(as) ==
  [k \in 1..Len(as) |->
     [name |-> <<as[k].id, " - ", as[k].name, " (", as[k].description, ")">>,
      value |-> as[k].name]]

\* choices: agents.map(a => ({ name: `${a.id} - ${a.name} (${a.description})`, value: a.id }))
AgentChoices(as) ==
  [k \in 1..Len(as) |->
     [name |-> <<as[k].id, " - ", as[k].name, " (", as[k].description, ")">>,
      value |-> as[k].id]]

\* const { agent } = await inquirer.prompt(...); answers.agent = agent;
AnswerAgent ==
  /\ pc = "wait_agent"
  /\ \E k \in 1..Len(AgentChoices(agents)) :
       LET agent == AgentChoices(agents)[k].value
       IN /\ answers' = [answers EXCEPT !.agent = Some(agent)]
          /\ log' = Append(log, Event("answer", "agent", <<agent>>))
  /\ pc' = "ask_ides"
  /\ UNCHANGED <<version, installer, chalk, inquirer, cmd, options,
                 agents, rejects, config, exitCode>>

\* The answer of the checkbox: the values of the checked choices, in choice order.
RECURSIVE CheckedFrom(_, _)
CheckedFrom(S, k) ==
  IF k > Len(IdeChoices) THEN <<>>
  ELSE (IF k \in S THEN <<IdeChoices[k]>> ELSE <<>>) \o CheckedFrom(S, k + 1)

Checked(S) == CheckedFrom(S, 1)

ValidateMessage == "You must choose at least one IDE, or press Ctrl+C to skip IDE setup."

\* Mutant: validate accepts every submission.
ValidateAcceptsAll(answer) == "true"

\* validate: (answer) => { if (answer.length < 1) return '...'; return true; }
Validate(answer) == IF Len(answer) < 1 THEN ValidateMessage ELSE "true"

\* The user submits the checkbox.  inquirer accepts the submission only when
\* validate returns true; otherwise it shows the message and keeps the prompt
\* open.  On acceptance: answers.ides = ides; return answers;
SubmitIdes ==
  /\ pc = "wait_ides"
  /\ \E S \in IdeSelections :
       LET answer == Checked(S)
           v == Validate(answer)
       IN IF v = "true"
          THEN /\ answers' = [answers EXCEPT !.ides = Some(answer)]
               /\ config' = Some(answers')
               /\ log' = log \o << Event("answer", "ides", <<answer>>),
                                   Event("return", "promptInstallation", <<answers'>>) >>
               /\ rejects' = rejects
               /\ pc' = "install_call"
          ELSE /\ rejects < MaxRejects
               /\ rejects' = rejects + 1
               /\ log' = Append(log, Event("invalid", "ides", <<v>>))
               /\ UNCHANGED <<answers, config, pc>>
  /\ UNCHANGED <<version, installer, chalk, inquirer, cmd, options,
                 agents, exitCode>>

\* The user interrupts an open prompt (Ctrl+C), or the prompt cannot be
\* answered.  Depending on the inquirer build the prompt's promise rejects,
\* which the handler's catch receives, or the process is ended by the signal.
PromptAbort ==
  /\ pc \in {WaitPc(n) : n \in PromptNames}
  /\ \/ /\ log' = Append(log, ThrowEvent("inquirer.prompt"))
        /\ pc' = "install_catch"
        /\ exitCode' = exitCode
     \/ /\ log' = Append(log, Event("signal", "SIGINT", <<>>))
        /\ pc' = "exited"
        /\ exitCode' = 130
  /\ UNCHANGED <<version, installer, chalk, inquirer, cmd, options,
                 answers, agents, rejects, config>>

\* ------------------------------------------------------------ specification
Next ==
  \/ RequireLocalPkg
  \/ RequireLocalInstaller
  \/ RequireRootPkg
  \/ RequireRootInstaller
  \/ ResolveFailed
  \/ Parse
  \/ ProcessEnd
  \/ InstallEnter
  \/ InstallBranch
  \/ PromptEnter
  \/ PromptShow
  \/ AnswerDirectory
  \/ AnswerInstallType
  \/ GetAvailableAgents
  \/ AnswerAgent
  \/ SubmitIdes
  \/ PromptAbort
  \/ InstallCall
  \/ InstallCatch
  \/ UpdateCall
  \/ UpdateCatch
  \/ ListCall
  \/ ListCatch
  \/ StatusCall
  \/ StatusCatch

Spec == Init /\ [][Next]_vars

\* ------------------------------------------------------- reading the log
Idx(k, n) == {i \in DOMAIN log : log[i].kind = k /\ log[i].name = n}
Has(k, n) == Idx(k, n) # {}
Count(k, n) == Cardinality(Idx(k, n))
OfKind(k) == SelectSeq(log, LAMBDA e : e.kind = k)
NamesOfKind(k) == [i \in DOMAIN OfKind(k) |-> OfKind(k)[i].name]
IsPrefix(s, t) == Len(s) <= Len(t) /\ SubSeq(t, 1, Len(s)) = s
Before(I, J) == \A i \in I, j \in J : i < j

MainOps == {"install", "update", "listAgents", "showStatus"}
CollaboratorOps == MainOps \cup {"getAvailableAgents"}

\* No part of the interactive flow has run.
NoInteractiveFlow ==
  /\ ~Has("enter", "promptInstallation")
  /\ OfKind("prompt") = <<>>
  /\ OfKind("answer") = <<>>
  /\ ~Has("call", "getAvailableAgents")
  /\ ~Has("use", "inquirer.prompt")
  /\ pc \notin {"prompt_enter", "get_agents"}
          \cup {AskPc(n) : n \in PromptNames} \cup {WaitPc(n) : n \in PromptNames}

\* ------------------------------------------------------------------- C1
\* C1 as stated: whenever install is given --full or --agent (any value), no
\* part of the interactive flow ever runs.
C1_Original ==
  (cmd = "install" /\ (options.full \/ options.agent # None)) => NoInteractiveFlow

\* C1 amended: whenever install is given --full or --agent with a non-empty
\* value, no part of the interactive flow (promptInstallation, its prompts,
\* getAvailableAgents) ever runs.
C1_DirectNeverPrompts ==
  (cmd = "install" /\ (options.full \/ TruthyStr(options.agent))) => NoInteractiveFlow

\* install --agent dev (no --full) has run to the end of the process and
\* installer.install was called.
C1_Witness ==
  /\ cmd = "install" /\ ~options.full /\ options.agent = Some("dev")
  /\ options.directory # None /\ options.ide # None
  /\ Has("call", "install") /\ pc = "exited"

\* ------------------------------------------------------------------- C2
ExpectedPrompts ==
  IF answers.installType = Some("single-agent")
  THEN <<"directory", "installType", "agent", "ides">>
  ELSE <<"directory", "installType", "ides">>

\* C2: when install is given neither --full nor --agent, the handler enters
\* promptInstallation; the prompts are asked in the order directory, install
\* type, agent, IDEs, each at most once and each only after the previous one
\* was answered; the agent prompt, and the getAvailableAgents call before it,
\* happen exactly when the install-type answer is single-agent; and
\* installer.install is called only after the IDE prompt was answered.
C2_PromptOrder ==
  (cmd = "install" /\ ~options.full /\ options.agent = None) =>
    /\ pc \notin {"install_enter", "install_branch", "prompt_enter"} =>
         Has("enter", "promptInstallation")
    /\ Count("enter", "promptInstallation") <= 1
    /\ IsPrefix(NamesOfKind("prompt"), ExpectedPrompts)
    /\ IsPrefix(NamesOfKind("answer"), NamesOfKind("prompt"))
    /\ Len(NamesOfKind("prompt")) <= Len(NamesOfKind("answer")) + 1
    /\ \A n \in PromptNames : Before(Idx("prompt", n), Idx("answer", n))
    /\ Before(Idx("enter", "promptInstallation"), Idx("prompt", "directory"))
    /\ Count("call", "getAvailableAgents") <= 1
    /\ Has("call", "getAvailableAgents") => answers.installType = Some("single-agent")
    /\ Before(Idx("answer", "installType"), Idx("call", "getAvailableAgents"))
    /\ Has("prompt", "agent") =>
         /\ Has("call", "getAvailableAgents")
         /\ Before(Idx("call", "getAvailableAgents"), Idx("prompt", "agent"))
    /\ Has("prompt", "ides") =>
         (Has("prompt", "agent") <=> answers.installType = Some("single-agent"))
    /\ Has("call", "install") =>
         /\ Has("answer", "ides")
         /\ Before(Idx("answer", "ides"), Idx("call", "install"))

\* An interactive run that chose single-agent, answered all four prompts and
\* called installer.install.
C2_Witness ==
  /\ cmd = "install" /\ ~options.full /\ options.agent = None
  /\ NamesOfKind("answer") = <<"directory", "installType", "agent", "ides">>
  /\ Has("call", "install")

\* ------------------------------------------------------------------- C3
InstallArgs == {log[i].args[1] : i \in Idx("call", "install")}

\* C3 as stated: in direct mode (--full or --agent present) the config passed
\* has installType single-agent when --agent is given and full otherwise,
\* agent the --agent value, directory the --directory value or .bmad-core when
\* absent, ides the --ide values or the empty list when absent.
C3_Original ==
  (cmd = "install" /\ (options.full \/ options.agent # None)) =>
    \A c \in InstallArgs :
      /\ c.installType = Some(IF options.agent # None THEN "single-agent" ELSE "full")
      /\ c.agent = options.agent
      /\ c.directory = (IF options.directory # None THEN options.directory
                        ELSE Some(".bmad-core"))
      /\ c.ides = (IF options.ide # None THEN options.ide ELSE Some(<<>>))

\* C3 amended: in direct mode (--full, or --agent with a non-empty value) the
\* config passed to installer.install has installType full when --full is
\* given and single-agent otherwise; agent the --agent value (undefined when
\* absent); directory the --directory value when it is given and non-empty
\* and .bmad-core otherwise; ides the --ide values in the order given, or the
\* empty list when absent.
C3_DirectConfig ==
  (cmd = "install" /\ (options.full \/ TruthyStr(options.agent))) =>
    \A c \in InstallArgs :
      /\ options.full => c.installType = Some("full")
      /\ ~options.full => c.installType = Some("single-agent")
      /\ c.agent = options.agent
      /\ options.directory \in {None, Some("")} => c.directory = Some(".bmad-core")
      /\ options.directory \notin {None, Some("")} => c.directory = options.directory
      /\ options.ide = None => c.ides = Some(<<>>)
      /\ options.ide # None => c.ides = options.ide

\* install --full --directory /tmp/x --ide cursor --ide windsurf has called
\* installer.install with {full, undefined, /tmp/x, [cursor, windsurf]}.
C3_Witness ==
  /\ cmd = "install"
  /\ options.full /\ options.agent = None
  /\ options.directory = Some("/tmp/x")
  /\ options.ide = Some(<<"cursor", "windsurf">>)
  /\ InstallArgs = {[installType |-> Some("full"), agent |-> None,
                     directory |-> Some("/tmp/x"),
                     ides |-> Some(<<"cursor", "windsurf">>)]}

\* ------------------------------------------------------------------- C4
PrefixOf(c) ==
  CASE c = "install" -> "Installation failed:"
    [] c = "update"  -> "Update failed:"
    [] c = "list"    -> "Error:"
    [] c = "status"  -> "Error:"
    [] OTHER         -> "none"

CatchPcOf(c) ==
  CASE c = "install" -> "install_catch"
    [] c = "update"  -> "update_catch"
    [] c = "list"    -> "list_catch"
    [] c = "status"  -> "status_catch"
    [] OTHER         -> "none"

CollaboratorThrows == {i \in DOMAIN log : log[i].kind = "throw" /\ log[i].name \in CollaboratorOps}

\* C4: once a collaborator call has thrown, control is in the catch block of
\* the running command's handler or the process has ended; no collaborator
\* operation is called after the throw and the failed operation was called
\* once; and when the process has ended, the error stream holds exactly one
\* message, after the throw, with the command's prefix (Installation failed:,
\* Update failed:, Error:, Error:), and the exit code is 1.
C4_ErrorsFatal ==
  \A i \in CollaboratorThrows :
    /\ pc \in {CatchPcOf(cmd), "exited"}
    /\ pc # "exited" => (exitCode = NotExited /\ ENABLED Next)
    /\ \A j \in DOMAIN log : j > i => log[j].kind \notin {"call", "prompt", "throw"}
    /\ Count("call", log[i].name) = 1
    /\ log[i - 1] = CallEvent(log[i].name, log[i - 1].args)
    /\ pc = "exited" =>
         /\ exitCode = 1
         /\ NamesOfKind("stderr") = <<PrefixOf(cmd)>>
         /\ Before({i}, Idx("stderr", PrefixOf(cmd)))

\* Each of the five ways a collaborator call can fail has ended the process:
\* here, getAvailableAgents in the interactive flow.
C4_Witness ==
  /\ pc = "exited"
  /\ Has("throw", "getAvailableAgents")
  /\ NamesOfKind("stderr") = <<"Installation failed:">>

LocalRequires == Idx("require", "local:package.json") \cup Idx("require", "local:lib/installer")
RootRequires == Idx("require", "root:package.json") \cup Idx("require", "root:lib/installer")
ResolveDiagnostic == "Error: Could not load required modules."

\* Something beyond module resolution has run: dispatch, a handler, a prompt,
\* a helper load or a collaborator call.
PastResolution ==
  \/ \E i \in DOMAIN log : log[i].kind \in {"parse", "call", "prompt", "enter", "init", "use"}
  \/ pc \notin {"require_local_pkg", "require_local_installer", "require_root_pkg",
                "require_root_installer", "resolve_failed", "parse", "exited"}

\* C6: the installer-local context is tried first; the root context is tried
\* only after a part of the local resolution failed, and then both version
\* and installer come from the root context; when the root resolution fails
\* the diagnostic is printed and the process exits with status 1 with no
\* dispatch, handler, prompt or collaborator call; and whenever anything past
\* resolution runs, version and installer are both defined and come from the
\* same context.
C6_Resolution ==
  /\ log # <<>> => log[1] = Event("require", "local:package.json", <<>>)
  /\ Before(LocalRequires, RootRequires)
  /\ RootRequires # {} => Has("stdout", "Installer context not found")
  /\ (version = Some("local") /\ installer = Some("local")) => RootRequires = {}
  /\ installer = Some("root") => version = Some("root")
  /\ pc = "resolve_failed" => ~PastResolution
  /\ Has("stderr", ResolveDiagnostic) =>
       /\ pc = "exited" /\ exitCode = 1
       /\ ~PastResolution
       /\ Cardinality(RootRequires) \in {1, 2}
  /\ PastResolution =>
       /\ version # None /\ installer # None
       /\ version = installer
       /\ ~Has("stderr", ResolveDiagnostic)

\* The local package.json resolved, the local installer did not, the root
\* context resolved, and a command handler has called the collaborator.
C6_Witness ==
  /\ Has("require", "local:lib/installer")
  /\ version = Some("root") /\ installer = Some("root")
  /\ OfKind("call") # <<>>

\* ------------------------------------------------------------------- C7
Loads == Idx("load", "chalk") \cup Idx("load", "inquirer")
InitCalls == Idx("init", "initializeModules")
Uses == {i \in DOMAIN log : log[i].kind = "use"}

\* C7: each of chalk and inquirer is loaded at most once per process, by the
\* first initializeModules call and by no later one; both are loaded exactly
\* when a call has been made; and every use of chalk (chalk.red, chalk.bold)
\* or inquirer (inquirer.prompt) finds the helper loaded.
C7_LazyInitOnce ==
  /\ Count("load", "chalk") <= 1
  /\ Count("load", "inquirer") <= 1
  /\ chalk = inquirer
  /\ chalk <=> InitCalls # {}
  /\ chalk <=> (Count("load", "chalk") = 1 /\ Count("load", "inquirer") = 1)
  /\ \A i \in InitCalls :
       IF \A j \in InitCalls : i <= j
       THEN /\ log[i + 1] = Event("load", "chalk", <<>>)
            /\ log[i + 2] = Event("load", "inquirer", <<>>)
            /\ Loads = {i + 1, i + 2}
       ELSE /\ i + 1 \notin Loads
            /\ \A l \in Loads : l < i
  /\ \A u \in Uses : log[u].args = <<TRUE>> /\ (\E l \in Loads : l < u)

\* An interactive install that failed: initializeModules was called by the
\* handler and again by promptInstallation, inquirer.prompt, chalk.bold and
\* the catch block's chalk.red were all used.
C7_Witness ==
  /\ Cardinality(InitCalls) = 2
  /\ Has("use", "chalk.red") /\ Has("use", "chalk.bold") /\ Has("use", "inquirer.prompt")
  /\ pc = "exited"

\* ------------------------------------------------------------------- C8
KnownIdes == {IdeChoices[k] : k \in DOMAIN IdeChoices}
Elems(q) == {q[k] : k \in DOMAIN q}

\* C8: an empty submission of the IDE checkbox is answered with a message,
\* not with success; it leaves the IDE prompt open, does not end the process,
\* and no earlier prompt is asked again; so every config the interactive flow
\* returns and passes to installer.install has at least one IDE, each one of
\* cursor, claude-code, windsurf, roo.
C8_IdesNonEmpty ==
  /\ \A i \in Idx("invalid", "ides") :
       /\ log[i].args # <<"true">>
       /\ \A j \in DOMAIN log : j > i => log[j].kind # "prompt"
       /\ Before(Idx("prompt", "ides"), {i})
       /\ Before({i}, Idx("answer", "ides"))
       /\ i = Len(log) => (pc = "wait_ides" /\ exitCode = NotExited)
  /\ Count("prompt", "ides") <= 1
  /\ rejects = Count("invalid", "ides")
  /\ \A i \in Idx("answer", "ides") : Len(log[i].args[1]) >= 1
  /\ Has("enter", "promptInstallation") =>
       /\ \A i \in Idx("return", "promptInstallation") :
            /\ log[i].args[1].ides # None
            /\ Len(log[i].args[1].ides[1]) >= 1
            /\ Elems(log[i].args[1].ides[1]) \subseteq KnownIdes
       /\ \A c \in InstallArgs :
            /\ c.ides # None
            /\ Len(c.ides[1]) >= 1
            /\ Elems(c.ides[1]) \subseteq KnownIdes

\* The user submitted an empty selection, then a valid one, and
\* installer.install was called with it.
C8_Witness ==
  /\ Has("invalid", "ides")
  /\ Has("call", "install")
  /\ \E c \in InstallArgs : c.ides = Some(<<"claude-code", "roo">>)

\* ------------------------------------------------------------------- C9
\* What an update run has logged after dispatch, when the call returned.
UpdateTraceOk == << CallEvent("update", <<>>) >>

\* What an update run has logged after dispatch, when the call threw.
UpdateTraceFailed ==
  << CallEvent("update", <<>>), ThrowEvent("update"),
     Event("init", "initializeModules", <<>>), Event("load", "chalk", <<>>),
     Event("load", "inquirer", <<>>), Use("chalk.red", TRUE),
     Event("stderr", "Update failed:", <<>>) >>

AfterParse ==
  LET p == CHOOSE i \in Idx("parse", cmd) : TRUE
  IN SubSeq(log, p + 1, Len(log))

OpOf(c) ==
  CASE c = "install" -> "install"
    [] c = "update"  -> "update"
    [] c = "list"    -> "listAgents"
    [] c = "status"  -> "showStatus"
    [] OTHER         -> "none"

MainCalls == {i \in DOMAIN log : log[i].kind = "call" /\ log[i].name \in MainOps}

\* C10: in one run at most one call of install, update, listAgents or
\* showStatus is made, and it is the operation of the parsed subcommand; the
\* config an interactive install passes has agent defined exactly when
\* installType is single-agent, the agent being the id of a descriptor that
\* getAvailableAgents returned in this run, and has directory equal to what
\* the user typed at the directory prompt, or .bmad-core when nothing was typed.
C10_OneOperation ==
  /\ Cardinality(MainCalls) <= 1
  /\ \A i \in MainCalls : log[i].name = OpOf(cmd)
  /\ Has("enter", "promptInstallation") =>
       \A c \in InstallArgs :
         /\ c.installType \in {Some("full"), Some("single-agent")}
         /\ c.agent # None <=> c.installType = Some("single-agent")
         /\ c.agent # None =>
              /\ Has("call", "getAvailableAgents")
              /\ ~Has("throw", "getAvailableAgents")
              /\ \E k \in DOMAIN agents : agents[k].id = c.agent[1]
         /\ \A i \in Idx("answer", "directory") :
              c.directory = Some(IF log[i].args[1] = "" THEN ".bmad-core"
                                 ELSE log[i].args[1])
         /\ Has("answer", "directory")

\* An interactive single-agent install that accepted the default directory
\* and picked the second agent of the list.
C10_Witness ==
  /\ Has("enter", "promptInstallation")
  /\ \E c \in InstallArgs :
       /\ c.agent = Some("pm")
       /\ c.directory = Some(".bmad-core")
       /\ c.installType = Some("single-agent")
  /\ pc = "exited"

====
